---- MODULE Spec2Model ----
(***************************************************************************)
(* Model of spr's src/utils.rs: slugify, parse_name_list,                  *)
(* parse_pr_stack_list, run_command and get_pr_stack.                      *)
(*                                                                         *)
(* A Rust &str / String is modelled as a sequence of characters, each      *)
(* character a one-character TLA+ string.  A Vec is a sequence.            *)
(***************************************************************************)
EXTENDS Integers, Sequences, FiniteSets, TLC

VARIABLES
    s_pc, s_in, s_out, s_out2,          \* slugify: position, input, 1st and 2nd result
    n_pc, n_text, n_out,                \* parse_name_list: position, input, result
    p_pc, p_text, p_out,                \* parse_pr_stack_list: position, input, result
    c_pc, numbers, owner, repo, encoded, decoded,   \* encode / decode round trip
    g_pc, pr, cherry_pick, directly_based_on_master, gitReply,
    gitCalls, encCalls, encArg, g_result,           \* get_pr_stack
    r_pc, spawned, r_env, cmd_output, diag, r_result    \* run_command

slugVars  == <<s_pc, s_in, s_out, s_out2>>
nameVars  == <<n_pc, n_text, n_out>>
parseVars == <<p_pc, p_text, p_out>>
codecVars == <<c_pc, numbers, owner, repo, encoded, decoded>>
stackVars == <<g_pc, pr, cherry_pick, directly_based_on_master, gitReply,
               gitCalls, encCalls, encArg, g_result>>
runVars   == <<r_pc, spawned, r_env, cmd_output, diag, r_result>>
vars == <<slugVars, nameVars, parseVars, codecVars, stackVars, runVars>>

----------------------------------------------------------------------------
(* Bounds of the model *)

MaxSlugLen == 4
MaxNameTextLen == 5
MaxStackTextLen == 6
MaxPrNumber == 11
MaxStackLen == 2
MaxRepoNameLen == 1
MaxStderrLen == 3
MaxExitCode == 2

----------------------------------------------------------------------------
(* Strings *)

\* All sequences over S of length 0..n.
SeqsUpTo(S, n) == UNION {[1..k -> S] : k \in 0..n}

\* char::is_whitespace (Unicode White_Space), restricted to the characters
\* that occur in the model's alphabets.
IsWhitespace(c) == c \in {" ", "\n", "\t", "\r"}

IsAsciiDigit(c) == c \in {"0", "1", "2", "3", "4", "5", "6", "7", "8", "9"}

\* char::is_ascii_alphanumeric, restricted to the model's alphabets.
IsAsciiAlphanumeric(c) ==
    \/ IsAsciiDigit(c)
    \/ c \in {"a", "b", "e", "h", "o", "u", "A", "E"}

\* char::to_ascii_lowercase
ToAsciiLowercase(c) ==
    CASE c = "A" -> "a"
      [] c = "E" -> "e"
      [] OTHER -> c

\* Canonical decomposition of one character: an accented letter becomes its
\* base letter followed by a combining mark; every other character of the
\* alphabet is its own decomposition.
NfdChar(c) ==
    CASE c = "é" -> <<"e", "´">>
      [] c = "É" -> <<"E", "´">>
      [] OTHER -> <<c>>

RECURSIVE Nfd(_)
Nfd(s) == IF s = <<>> THEN <<>> ELSE NfdChar(Head(s)) \o Nfd(Tail(s))

RECURSIVE TrimStart(_)
TrimStart(s) ==
    IF s # <<>> /\ IsWhitespace(Head(s)) THEN TrimStart(Tail(s)) ELSE s

RECURSIVE TrimEnd(_)
TrimEnd(s) ==
    IF s # <<>> /\ IsWhitespace(s[Len(s)])
    THEN TrimEnd(SubSeq(s, 1, Len(s) - 1))
    ELSE s

\* str::trim
Trim(s) == TrimEnd(TrimStart(s))

----------------------------------------------------------------------------
(* slugify *)

MapWhitespaceToHyphen(s) ==
    [i \in 1..Len(s) |-> IF IsWhitespace(s[i]) THEN "-" ELSE s[i]]

IsSlugSource(c) == IsAsciiAlphanumeric(c) \/ c = "_" \/ c = "-"

FilterSlugChars(s) == SelectSeq(s, IsSlugSource)

\* Mutant: the filter forgets the underscore.
IsSlugSourceNoUnderscore(c) == IsAsciiAlphanumeric(c) \/ c = "-"

FilterSlugCharsNoUnderscore(s) == SelectSeq(s, IsSlugSourceNoUnderscore)

LowercaseAll(s) == [i \in 1..Len(s) |-> ToAsciiLowercase(s[i])]

\* The scan closure: last_char is "" for None; a hyphen that follows an
\* emitted hyphen is dropped, every other character is emitted and remembered.
RECURSIVE CollapseHyphens(_, _)
CollapseHyphens(s, last_char) ==
    IF s = <<>> THEN <<>>
    ELSE IF Head(s) = "-" /\ last_char = "-"
         THEN CollapseHyphens(Tail(s), last_char)
         ELSE <<Head(s)>> \o CollapseHyphens(Tail(s), Head(s))

\* Mutant: the input is not trimmed.
slugify_no_trim(s) ==
    CollapseHyphens(
        LowercaseAll(FilterSlugChars(MapWhitespaceToHyphen(Nfd(s)))), "")

\* Mutant: the underscore is filtered out.
slugify_no_underscore(s) ==
    CollapseHyphens(
        LowercaseAll(
            FilterSlugCharsNoUnderscore(MapWhitespaceToHyphen(Nfd(Trim(s))))),
        "")

slugify(s) ==
    CollapseHyphens(
        LowercaseAll(FilterSlugChars(MapWhitespaceToHyphen(Nfd(Trim(s))))), "")

SlugAlphabet == {"a", "A", "é", "1", "_", "-", "!", " "}

SlugTexts == SeqsUpTo(SlugAlphabet, MaxSlugLen)

SlugIdle ==
    /\ s_pc = "idle" /\ s_in = <<>> /\ s_out = <<>> /\ s_out2 = <<>>

NameIdle == n_pc = "idle" /\ n_text = <<>> /\ n_out = <<>>

ParseIdle == p_pc = "idle" /\ p_text = <<>> /\ p_out = <<>>

CodecIdle ==
    /\ c_pc = "idle" /\ numbers = <<>> /\ owner = <<>> /\ repo = <<>>
    /\ encoded = <<>> /\ decoded = <<>>

StackIdle ==
    /\ g_pc = "idle" /\ pr = 0 /\ cherry_pick = FALSE
    /\ directly_based_on_master = FALSE
    /\ gitReply = [ok |-> TRUE, stack |-> <<>>, err |-> ""]
    /\ gitCalls = 0 /\ encCalls = 0 /\ encArg = <<>>
    /\ g_result = [ok |-> FALSE, text |-> <<>>, err |-> ""]

RunIdle ==
    /\ r_pc = "idle" /\ spawned = 0
    /\ r_env = [spawn |-> "none", wait |-> "none", write |-> "none"]
    /\ cmd_output = [status |-> 0, stderr |-> <<>>]
    /\ diag = <<>> /\ r_result = "none"

InitSlug ==
    /\ s_pc = "start" /\ s_in \in SlugTexts /\ s_out = <<>> /\ s_out2 = <<>>
    /\ NameIdle /\ ParseIdle /\ CodecIdle /\ StackIdle /\ RunIdle

\* let slug = slugify(title)
Slugify ==
    /\ s_pc = "start"
    /\ s_out' = slugify(s_in)
    /\ s_pc' = "once"
    /\ UNCHANGED <<s_in, s_out2, nameVars, parseVars, codecVars, stackVars, runVars>>

\* slugify applied to a string that is already the result of slugify
SlugifyAgain ==
    /\ s_pc = "once"
    /\ s_out2' = slugify(s_out)
    /\ s_pc' = "twice"
    /\ UNCHANGED <<s_in, s_out, nameVars, parseVars, codecVars, stackVars, runVars>>

NextSlug == Slugify \/ SlugifyAgain

SpecSlug == InitSlug /\ [][NextSlug]_vars

----------------------------------------------------------------------------
(* Properties of slugify *)

HasChar(s, c) == \E i \in 1..Len(s) : s[i] = c

IsSlugChar(c) ==
    c \in {"a", "b", "c", "d", "e", "f", "g", "h", "i", "j", "k", "l", "m",
           "n", "o", "p", "q", "r", "s", "t", "u", "v", "w", "x", "y", "z",
           "0", "1", "2", "3", "4", "5", "6", "7", "8", "9", "_", "-"}

OnlySlugChars(s) == \A i \in 1..Len(s) : IsSlugChar(s[i])

NoAdjacentHyphens(s) == \A i \in 1..(Len(s) - 1) : ~(s[i] = "-" /\ s[i + 1] = "-")

IsValidSlug(s) == OnlySlugChars(s) /\ NoAdjacentHyphens(s)

LeadingHyphen(s) == s # <<>> /\ s[1] = "-"

TrailingHyphen(s) == s # <<>> /\ s[Len(s)] = "-"

\* A character of the input that leaves an alphanumeric or underscore in the slug.
Survives(c) ==
    \E i \in 1..Len(NfdChar(c)) :
        IsAsciiAlphanumeric(NfdChar(c)[i]) \/ NfdChar(c)[i] = "_"

SurvivorPositions(t) == {i \in 1..Len(t) : Survives(t[i])}

IsSeparator(c) == c = "-" \/ IsWhitespace(c)

\* C7 as stated: the slug has only characters of [a-z0-9_-], no two adjacent
\* hyphens, and no leading or trailing hyphen that comes from whitespace alone:
\* when the text has no hyphen of its own, the slug neither starts nor ends
\* with a hyphen.
C7_SlugNoEdgeHyphenFromWhitespace ==
    s_pc \in {"once", "twice"} =>
        /\ OnlySlugChars(s_out)
        /\ NoAdjacentHyphens(s_out)
        /\ (~HasChar(s_in, "-") => ~LeadingHyphen(s_out) /\ ~TrailingHyphen(s_out))

\* C7 amended: the slug has only characters of [a-z0-9_-] and no two adjacent
\* hyphens; the whitespace trimmed off the ends of the text produces no
\* hyphen: the slug starts (ends) with a hyphen only when, in the trimmed
\* text, a hyphen or whitespace character stands before the first (after the
\* last) character that survives as alphanumeric or underscore, or no
\* character survives.
C7_SlugCharsetAndTrimmedEdges ==
    s_pc \in {"once", "twice"} =>
        LET t == Trim(s_in)
            K == SurvivorPositions(t)
        IN /\ OnlySlugChars(s_out)
           /\ NoAdjacentHyphens(s_out)
           /\ (LeadingHyphen(s_out) =>
                 \/ K = {}
                 \/ \E i \in 1..Len(t) :
                        IsSeparator(t[i]) /\ \A k \in K : i < k)
           /\ (TrailingHyphen(s_out) =>
                 \/ K = {}
                 \/ \E i \in 1..Len(t) :
                        IsSeparator(t[i]) /\ \A k \in K : i > k)

\* Witness of C7: a text with leading whitespace and interior whitespace whose
\* slug has a hyphen, but not at its start.
C7_Witness ==
    /\ s_pc = "once"
    /\ Len(s_in) >= 3
    /\ IsWhitespace(s_in[1])
    /\ ~HasChar(s_in, "-")
    /\ HasChar(s_out, "-")
    /\ ~LeadingHyphen(s_out)

\* C8: slugify leaves a valid slug unchanged, and applying slugify to a
\* result of slugify gives that result again.
C8_SlugifyIdempotent ==
    /\ (s_pc \in {"once", "twice"} /\ IsValidSlug(s_in) => s_out = s_in)
    /\ (s_pc = "twice" => s_out2 = s_out)

\* Witness of C8: slugify has been applied twice, starting from a valid slug
\* with a hyphen and an underscore.
C8_Witness ==
    /\ s_pc = "twice"
    /\ IsValidSlug(s_in)
    /\ HasChar(s_in, "-")
    /\ HasChar(s_in, "_")
    /\ Len(s_in) >= 3

----------------------------------------------------------------------------
(* parse_name_list *)

Min(S) == CHOOSE x \in S : \A y \in S : x <= y

\* End of the match of the regex \(.*?\) attempted at the start of s, 0 when
\* there is none: s starts with "(" and the match runs to the first ")" that
\* is reached without crossing a line feed ("." matches any character but
\* "\n"; the lazy quantifier takes the shortest match).
ParenMatchEnd(s) ==
    LET ends == {j \in 2..Len(s) :
                    /\ s[j] = ")"
                    /\ \A k \in 2..(j - 1) : s[k] # "\n"}
    IN IF s # <<>> /\ Head(s) = "(" /\ ends # {} THEN Min(ends) ELSE 0

\* regex.replace_all(text, ","): leftmost matches, left to right, not overlapping
RECURSIVE ReplaceParenthesized(_)
ReplaceParenthesized(s) ==
    IF s = <<>> THEN <<>>
    ELSE IF ParenMatchEnd(s) > 0
         THEN <<",">> \o ReplaceParenthesized(SubSeq(s, ParenMatchEnd(s) + 1, Len(s)))
         ELSE <<Head(s)>> \o ReplaceParenthesized(Tail(s))

\* str::split(sep): the pieces between the separators, empty pieces included
RECURSIVE SplitOn(_, _)
SplitOn(s, sep) ==
    IF ~\E i \in 1..Len(s) : s[i] = sep
    THEN <<s>>
    ELSE LET i == Min({k \in 1..Len(s) : s[k] = sep})
         IN <<SubSeq(s, 1, i - 1)>> \o SplitOn(SubSeq(s, i + 1, Len(s)), sep)

TrimAll(pieces) == [i \in 1..Len(pieces) |-> Trim(pieces[i])]

IsNonEmpty(name) == name # <<>>

parse_name_list(text) ==
    SelectSeq(TrimAll(SplitOn(ReplaceParenthesized(text), ",")), IsNonEmpty)

NameAlphabet == {"a", "b", " ", "\n", ",", "(", ")"}

NameTexts == SeqsUpTo(NameAlphabet, MaxNameTextLen)

InitNames ==
    /\ n_pc = "start" /\ n_text \in NameTexts /\ n_out = <<>>
    /\ SlugIdle /\ ParseIdle /\ CodecIdle /\ StackIdle /\ RunIdle

\* let names = parse_name_list(text)
ParseNameList ==
    /\ n_pc = "start"
    /\ n_out' = parse_name_list(n_text)
    /\ n_pc' = "done"
    /\ UNCHANGED <<n_text, slugVars, parseVars, codecVars, stackVars, runVars>>

NextNames == ParseNameList

SpecNames == InitNames /\ [][NextNames]_vars

----------------------------------------------------------------------------
(* Properties of parse_name_list *)

\* Number of "(" minus number of ")" among the first i characters of s.
RECURSIVE ParenDepth(_, _)
ParenDepth(s, i) ==
    IF i = 0 THEN 0
    ELSE ParenDepth(s, i - 1)
         + (IF s[i] = "(" THEN 1 ELSE IF s[i] = ")" THEN -1 ELSE 0)

\* The parentheses of s are balanced and not nested.
BalancedNotNested(s) ==
    /\ \A i \in 1..Len(s) : ParenDepth(s, i) \in {0, 1}
    /\ ParenDepth(s, Len(s)) = 0

\* Positions of s that are neither a parenthesis nor inside a pair of them.
OutsidePositions(s) ==
    {i \in 1..Len(s) : s[i] \notin {"(", ")"} /\ ParenDepth(s, i) = 0}

\* The entries occur in text one after the other, each as a run of
\* characters at allowed positions, starting at position from or later.
RECURSIVE OccurInOrder(_, _, _, _)
OccurInOrder(entries, text, from, allowed) ==
    IF entries = <<>> THEN TRUE
    ELSE LET e == Head(entries)
         IN \E q \in from..(Len(text) - Len(e) + 1) :
                /\ SubSeq(text, q, q + Len(e) - 1) = e
                /\ \A i \in q..(q + Len(e) - 1) : i \in allowed
                /\ OccurInOrder(Tail(entries), text, q + Len(e), allowed)

\* C9: every entry is non-empty, has no whitespace at either end and no
\* comma; the entries occur in the text in the order of the result; and when
\* the parentheses of the text are balanced and not nested, the entries are
\* made of characters outside the parenthesized annotations only.
C9_NameListEntriesClean ==
    n_pc = "done" =>
        /\ \A k \in 1..Len(n_out) :
              /\ n_out[k] # <<>>
              /\ ~IsWhitespace(n_out[k][1])
              /\ ~IsWhitespace(n_out[k][Len(n_out[k])])
              /\ ~HasChar(n_out[k], ",")
        /\ OccurInOrder(n_out, n_text, 1, 1..Len(n_text))
        /\ (BalancedNotNested(n_text) =>
               OccurInOrder(n_out, n_text, 1, OutsidePositions(n_text)))

----------------------------------------------------------------------------
(* parse_pr_stack_list *)

Max(S) == CHOOSE x \in S : \A y \in S : x >= y

\* str::lines: the pieces between line feeds, without a final empty piece,
\* each without its trailing carriage return.
StripCarriageReturn(line) ==
    IF line # <<>> /\ line[Len(line)] = "\r"
    THEN SubSeq(line, 1, Len(line) - 1)
    ELSE line

Lines(text) ==
    LET pieces == SplitOn(text, "\n")
        kept == IF pieces[Len(pieces)] = <<>>
                THEN SubSeq(pieces, 1, Len(pieces) - 1)
                ELSE pieces
    IN [i \in 1..Len(kept) |-> StripCarriageReturn(kept[i])]

\* The leading characters of s up to the first whitespace character.
RECURSIVE TakeToken(_)
TakeToken(s) ==
    IF s = <<>> \/ IsWhitespace(Head(s)) THEN <<>>
    ELSE <<Head(s)>> \o TakeToken(Tail(s))

\* The trailing characters of s after the last whitespace character.
RECURSIVE TakeLastToken(_)
TakeLastToken(s) ==
    IF s = <<>> \/ IsWhitespace(s[Len(s)]) THEN <<>>
    ELSE TakeLastToken(SubSeq(s, 1, Len(s) - 1)) \o <<s[Len(s)]>>

\* Mutant: the last whitespace-delimited token instead of the first.
LastToken(line) == TakeLastToken(TrimEnd(line))

\* line.split_whitespace().next(): <<>> stands for None (a token is never empty)
FirstToken(line) == TakeToken(TrimStart(line))

\* Mutant: the segment before the first '/'.
FirstSegment(url) == SplitOn(url, "/")[1]

\* url.split('/').last()
LastSegment(url) == SplitOn(url, "/")[Len(SplitOn(url, "/"))]

DigitValue(c) ==
    CASE c = "0" -> 0 [] c = "1" -> 1 [] c = "2" -> 2 [] c = "3" -> 3
      [] c = "4" -> 4 [] c = "5" -> 5 [] c = "6" -> 6 [] c = "7" -> 7
      [] c = "8" -> 8 [] c = "9" -> 9

RECURSIVE StripLeadingZeros(_)
StripLeadingZeros(d) ==
    IF d # <<>> /\ Head(d) = "0" THEN StripLeadingZeros(Tail(d)) ELSE d

\* u64::MAX, 18446744073709551615, as decimal digits
U64MaxDigits ==
    <<"1", "8", "4", "4", "6", "7", "4", "4", "0", "7",
      "3", "7", "0", "9", "5", "5", "1", "6", "1", "5">>

\* The number written by the digits d does not fit in a u64.
OverflowsU64(d) ==
    LET z == StripLeadingZeros(d)
    IN \/ Len(z) > Len(U64MaxDigits)
       \/ /\ Len(z) = Len(U64MaxDigits)
          /\ \E i \in 1..Len(z) :
                /\ \A k \in 1..(i - 1) : z[k] = U64MaxDigits[k]
                /\ DigitValue(z[i]) > DigitValue(U64MaxDigits[i])

\* The digits of a str::parse::<u64> argument: an optional leading "+" is skipped.
U64Digits(num) == IF num # <<>> /\ Head(num) = "+" THEN Tail(num) ELSE num

\* num.parse::<u64>().ok() is Some
ParsesAsU64(num) ==
    /\ U64Digits(num) # <<>>
    /\ \A i \in 1..Len(U64Digits(num)) : IsAsciiDigit(U64Digits(num)[i])
    /\ ~OverflowsU64(U64Digits(num))

RECURSIVE DigitsValue(_)
DigitsValue(d) ==
    IF d = <<>> THEN 0
    ELSE 10 * DigitsValue(SubSeq(d, 1, Len(d) - 1)) + DigitValue(d[Len(d)])

\* The value of num.parse::<u64>() when it is Ok
U64Value(num) == DigitsValue(U64Digits(num))

\* .and_then(|num| num.parse().ok()): <<n>> for Some(n), <<>> for None.
ParseNumber(num) == IF ParsesAsU64(num) THEN <<U64Value(num)>> ELSE <<>>

\* The filter_map closure: <<n>> for Some(n), <<>> for None.  A line without
\* a token gives None at next(), which and_then hands on; here its empty
\* token has an empty last segment, which does not parse.
LineNumber(line) == ParseNumber(LastSegment(FirstToken(line)))

\* filter_map(..).collect() over the lines, in order
RECURSIVE FilterMapLines(_)
FilterMapLines(ls) ==
    IF ls = <<>> THEN <<>>
    ELSE LineNumber(Head(ls)) \o FilterMapLines(Tail(ls))

parse_pr_stack_list(text) == FilterMapLines(Lines(text))

StackTextAlphabet == {"u", "/", "1", "+", " ", "\n"}

StackTexts == SeqsUpTo(StackTextAlphabet, MaxStackTextLen)

InitParse ==
    /\ p_pc = "start" /\ p_text \in StackTexts /\ p_out = <<>>
    /\ SlugIdle /\ NameIdle /\ CodecIdle /\ StackIdle /\ RunIdle

\* let pr_stack = parse_pr_stack_list(text)
ParsePrStackList ==
    /\ p_pc = "start"
    /\ p_out' = parse_pr_stack_list(p_text)
    /\ p_pc' = "done"
    /\ UNCHANGED <<p_text, slugVars, nameVars, codecVars, stackVars, runVars>>

NextParse == ParsePrStackList

SpecParse == InitParse /\ [][NextParse]_vars

----------------------------------------------------------------------------
(* Properties of parse_pr_stack_list *)

\* Position of the first line feed of s at or after from, Len(s) + 1 if none.
LineEnd(s, from) ==
    Min({i \in from..Len(s) : s[i] = "\n"} \cup {Len(s) + 1})

\* The first whitespace-delimited token of line, by positions: it starts at
\* the first character that is not whitespace and ends before the next
\* whitespace character.
TokenOf(line) ==
    LET nonWs == {i \in 1..Len(line) : ~IsWhitespace(line[i])}
        start == Min(nonWs)
        stop  == Min({i \in start..Len(line) : IsWhitespace(line[i])}
                     \cup {Len(line) + 1})
    IN IF nonWs = {} THEN <<>> ELSE SubSeq(line, start, stop - 1)

\* The part of a token after its last '/', the whole token when it has none.
TailOf(token) ==
    LET slashes == {i \in 1..Len(token) : token[i] = "/"}
    IN SubSeq(token, Max(slashes \cup {0}) + 1, Len(token))

\* What one line contributes: the number after the last '/' of its first
\* token when that parses, nothing otherwise.
Contribution(line) ==
    IF TokenOf(line) # <<>> /\ ParsesAsU64(TailOf(TokenOf(line)))
    THEN <<U64Value(TailOf(TokenOf(line)))>>
    ELSE <<>>

\* The contributions of the lines of s that start at from or later, in line order.
RECURSIVE ContributionsFrom(_, _)
ContributionsFrom(s, from) ==
    IF from > Len(s) THEN <<>>
    ELSE Contribution(SubSeq(s, from, LineEnd(s, from) - 1))
         \o ContributionsFrom(s, LineEnd(s, from) + 1)

\* s with everything after the first token of each line removed.
RECURSIVE FirstTokensOnly(_, _)
FirstTokensOnly(s, from) ==
    IF from > Len(s) THEN <<>>
    ELSE TokenOf(SubSeq(s, from, LineEnd(s, from) - 1))
         \o (IF LineEnd(s, from) <= Len(s) THEN <<"\n">> ELSE <<>>)
         \o FirstTokensOnly(s, LineEnd(s, from) + 1)

\* C10: the result is, in line order, what each line contributes: one number,
\* the integer after the last '/' of the line's first whitespace-delimited
\* token, when that segment parses, and nothing otherwise; the text after the
\* first token of a line does not change the result.
C10_DecodeFirstTokenOfEachLine ==
    p_pc = "done" =>
        /\ p_out = ContributionsFrom(p_text, 1)
        /\ p_out = parse_pr_stack_list(FirstTokensOnly(p_text, 1))

\* Witness of C10: two lines that both contribute, a first token with a '/',
\* and a word after the first token of a line.
C10_Witness ==
    /\ p_pc = "done"
    /\ Len(p_out) = 2
    /\ HasChar(p_text, "/")
    /\ HasChar(p_text, "u")
    /\ ~HasChar(FirstTokensOnly(p_text, 1), "u")

----------------------------------------------------------------------------
(* The encoder, message::build_pr_stack_message, and the round trip.       *)
(* The encoder lives in the message module, outside utils.rs; it is        *)
(* modelled from its documented format (the comment above                  *)
(* parse_pr_stack_list and the texts of its tests).                        *)

\* Display of a u64: decimal digits, no leading zero.
DigitChar(d) ==
    CASE d = 0 -> "0" [] d = 1 -> "1" [] d = 2 -> "2" [] d = 3 -> "3"
      [] d = 4 -> "4" [] d = 5 -> "5" [] d = 6 -> "6" [] d = 7 -> "7"
      [] d = 8 -> "8" [] d = 9 -> "9"

RECURSIVE ToDecimal(_)
ToDecimal(n) ==
    IF n < 10 THEN <<DigitChar(n)>>
    ELSE ToDecimal(n \div 10) \o <<DigitChar(n % 10)>>

UrlPrefix ==
    <<"h", "t", "t", "p", "s", ":", "/", "/",
      "g", "i", "t", "h", "u", "b", ".", "c", "o", "m", "/">>

PullSegment == <<"/", "p", "u", "l", "l", "/">>

CurrentPrMark ==
    <<" ", "<", "-", "-", " ", "(", "c", "u", "r", "r", "e", "n", "t", " ",
      "P", "R", ")">>

\* One line of the stack text: https://<host>/<owner>/<repo>/pull/<number>
PrUrl(n, own, rep) ==
    UrlPrefix \o own \o <<"/">> \o rep \o PullSegment \o ToDecimal(n)

\* One line per number in the given order, the first one marked as the
\* current PR, the lines separated by line feeds.
RECURSIVE JoinLines(_)
JoinLines(ls) ==
    IF ls = <<>> THEN <<>>
    ELSE IF Len(ls) = 1 THEN Head(ls)
    ELSE Head(ls) \o <<"\n">> \o JoinLines(Tail(ls))

build_pr_stack_message(nums, own, rep) ==
    JoinLines([i \in 1..Len(nums) |->
                  PrUrl(nums[i], own, rep)
                  \o (IF i = 1 THEN CurrentPrMark ELSE <<>>)])

PrNumbers == 1..MaxPrNumber

\* Owner and repository names: no whitespace
RepoNameAlphabet == {"o", "/"}

RepoNames == SeqsUpTo(RepoNameAlphabet, MaxRepoNameLen)

InitCodec ==
    /\ c_pc = "start"
    /\ numbers \in SeqsUpTo(PrNumbers, MaxStackLen) \ {<<>>}
    /\ owner \in RepoNames
    /\ repo \in RepoNames
    /\ encoded = <<>> /\ decoded = <<>>
    /\ SlugIdle /\ NameIdle /\ ParseIdle /\ StackIdle /\ RunIdle

\* let text = build_pr_stack_message(&numbers, &owner, &repo)
Encode ==
    /\ c_pc = "start"
    /\ encoded' = build_pr_stack_message(numbers, owner, repo)
    /\ c_pc' = "encoded"
    /\ UNCHANGED <<numbers, owner, repo, decoded,
                   slugVars, nameVars, parseVars, stackVars, runVars>>

\* let stack = parse_pr_stack_list(&text)
Decode ==
    /\ c_pc = "encoded"
    /\ decoded' = parse_pr_stack_list(encoded)
    /\ c_pc' = "decoded"
    /\ UNCHANGED <<numbers, owner, repo, encoded,
                   slugVars, nameVars, parseVars, stackVars, runVars>>

NextCodec == Encode \/ Decode

SpecCodec == InitCodec /\ [][NextCodec]_vars

\* C1: decoding the text the encoder produced for a non-empty sequence of
\* positive numbers gives that sequence back, same length and same order.
C1_RoundTrip == c_pc = "decoded" => decoded = numbers

\* Witness of C1: a decoded stack of two different numbers, one of them of
\* two digits, under a non-empty owner and repository name.
C1_Witness ==
    /\ c_pc = "decoded"
    /\ Len(numbers) = 2
    /\ numbers[1] >= 10
    /\ numbers[2] < numbers[1]
    /\ owner # <<>> /\ repo # <<>>
    /\ Len(decoded) = 2

----------------------------------------------------------------------------
(* get_pr_stack *)

\* Errors of git.parse_pr_stack_from_commit
GitErrors == {"no PR stack in commit message", "commit not found"}

\* What git.parse_pr_stack_from_commit(parent_oid) returns: Ok(stack) or Err(err)
GitReplies ==
    {[ok |-> TRUE, stack |-> st, err |-> ""] :
        st \in SeqsUpTo(PrNumbers, MaxStackLen)}
    \cup {[ok |-> FALSE, stack |-> <<>>, err |-> e] : e \in GitErrors}

\* Mutant: the lookup is skipped only when both flags are set.
get_pr_stack_both_flags(pull_request_number, cp, dbm, reply, own, rep) ==
    IF cp /\ dbm
    THEN [result |-> [ok |-> TRUE, err |-> "",
                      text |-> build_pr_stack_message(
                                   <<pull_request_number>>, own, rep)],
          gitCalls |-> 0, encCalls |-> 1, encArg |-> <<pull_request_number>>]
    ELSE IF ~reply.ok
    THEN [result |-> [ok |-> FALSE, err |-> reply.err, text |-> <<>>],
          gitCalls |-> 1, encCalls |-> 0, encArg |-> <<>>]
    ELSE LET pr_stack == <<pull_request_number>> \o reply.stack
         IN [result |-> [ok |-> TRUE, err |-> "",
                         text |-> build_pr_stack_message(pr_stack, own, rep)],
             gitCalls |-> 1, encCalls |-> 1, encArg |-> pr_stack]

\* Mutant: the number is pushed at the end of the parent's stack.
get_pr_stack_push_back(pull_request_number, cp, dbm, reply, own, rep) ==
    IF cp \/ dbm
    THEN [result |-> [ok |-> TRUE, err |-> "",
                      text |-> build_pr_stack_message(
                                   <<pull_request_number>>, own, rep)],
          gitCalls |-> 0, encCalls |-> 1, encArg |-> <<pull_request_number>>]
    ELSE IF ~reply.ok
    THEN [result |-> [ok |-> FALSE, err |-> reply.err, text |-> <<>>],
          gitCalls |-> 1, encCalls |-> 0, encArg |-> <<>>]
    ELSE LET pr_stack == reply.stack \o <<pull_request_number>>
         IN [result |-> [ok |-> TRUE, err |-> "",
                         text |-> build_pr_stack_message(pr_stack, own, rep)],
             gitCalls |-> 1, encCalls |-> 1, encArg |-> pr_stack]

\* Mutant: a failed lookup is taken for an empty parent stack.
get_pr_stack_unwrap_or_default(pull_request_number, cp, dbm, reply, own, rep) ==
    IF cp \/ dbm
    THEN [result |-> [ok |-> TRUE, err |-> "",
                      text |-> build_pr_stack_message(
                                   <<pull_request_number>>, own, rep)],
          gitCalls |-> 0, encCalls |-> 1, encArg |-> <<pull_request_number>>]
    ELSE LET pr_stack == <<pull_request_number>> \o reply.stack
         IN [result |-> [ok |-> TRUE, err |-> "",
                         text |-> build_pr_stack_message(pr_stack, own, rep)],
             gitCalls |-> 1, encCalls |-> 1, encArg |-> pr_stack]

\* The call's result (Ok(text) or Err(err)), the number of calls it makes to
\* git.parse_pr_stack_from_commit and to message::build_pr_stack_message, and
\* the sequence it hands to the latter.
get_pr_stack(pull_request_number, cp, dbm, reply, own, rep) ==
    IF cp \/ dbm
    THEN [result |-> [ok |-> TRUE, err |-> "",
                      text |-> build_pr_stack_message(
                                   <<pull_request_number>>, own, rep)],
          gitCalls |-> 0, encCalls |-> 1, encArg |-> <<pull_request_number>>]
    ELSE IF ~reply.ok
    THEN [result |-> [ok |-> FALSE, err |-> reply.err, text |-> <<>>],
          gitCalls |-> 1, encCalls |-> 0, encArg |-> <<>>]
    ELSE LET pr_stack == <<pull_request_number>> \o reply.stack
         IN [result |-> [ok |-> TRUE, err |-> "",
                         text |-> build_pr_stack_message(pr_stack, own, rep)],
             gitCalls |-> 1, encCalls |-> 1, encArg |-> pr_stack]

InitStack ==
    /\ g_pc = "start"
    /\ pr \in PrNumbers
    /\ cherry_pick \in BOOLEAN
    /\ directly_based_on_master \in BOOLEAN
    /\ gitReply \in GitReplies
    /\ gitCalls = 0 /\ encCalls = 0 /\ encArg = <<>>
    /\ g_result = [ok |-> FALSE, text |-> <<>>, err |-> ""]
    /\ c_pc = "idle" /\ numbers = <<>> /\ encoded = <<>> /\ decoded = <<>>
    /\ owner = <<"o">> /\ repo = <<"o", "1">>
    /\ SlugIdle /\ NameIdle /\ ParseIdle /\ RunIdle

\* One call of get_pr_stack, from entry to return.
GetPrStackCall ==
    LET r == get_pr_stack(pr, cherry_pick, directly_based_on_master,
                          gitReply, owner, repo)
    IN /\ g_pc = "start"
       /\ g_result' = r.result
       /\ gitCalls' = gitCalls + r.gitCalls
       /\ encCalls' = encCalls + r.encCalls
       /\ encArg' = r.encArg
       /\ g_pc' = "done"
       /\ UNCHANGED <<pr, cherry_pick, directly_based_on_master, gitReply,
                      slugVars, nameVars, parseVars, codecVars, runVars>>

\* get_pr_stack for a cherry-pick or a change directly based on master
GetPrStackSingle ==
    /\ cherry_pick \/ directly_based_on_master
    /\ GetPrStackCall

\* get_pr_stack when the parent commit's stack is looked up and found
GetPrStackFromParent ==
    /\ ~(cherry_pick \/ directly_based_on_master)
    /\ gitReply.ok
    /\ GetPrStackCall

\* get_pr_stack when the lookup of the parent commit's stack fails
GetPrStackLookupFails ==
    /\ ~(cherry_pick \/ directly_based_on_master)
    /\ ~gitReply.ok
    /\ GetPrStackCall

NextStack == GetPrStackSingle \/ GetPrStackFromParent \/ GetPrStackLookupFails

SpecStack == InitStack /\ [][NextStack]_vars

----------------------------------------------------------------------------
(* Properties of get_pr_stack *)

\* C2: with cherry_pick or directly_based_on_master set, the call renders the
\* one-element stack of the pull request number, whatever the lookup at the
\* parent commit would return, and makes no call to the lookup.
C2_SingletonWithoutLookup ==
    g_pc = "done" /\ (cherry_pick \/ directly_based_on_master) =>
        /\ g_result.ok
        /\ encCalls = 1
        /\ encArg = <<pr>>
        /\ parse_pr_stack_list(g_result.text) = <<pr>>
        /\ gitCalls = 0

\* Witness of C2: a cherry-pick whose parent lookup would have failed.
C2_Witness ==
    /\ g_pc = "done"
    /\ cherry_pick /\ ~directly_based_on_master
    /\ ~gitReply.ok
    /\ g_result.ok

\* C3: with both flags unset and a lookup that returns the stack P, the
\* encoder receives the pull request number followed by P, unchanged, and the
\* rendered stack has |P| + 1 lines, the first one for the pull request.
C3_PrependToParentStack ==
    g_pc = "done" /\ ~cherry_pick /\ ~directly_based_on_master /\ gitReply.ok =>
        /\ g_result.ok
        /\ encCalls = 1
        /\ Len(encArg) = Len(gitReply.stack) + 1
        /\ encArg[1] = pr
        /\ \A i \in 1..Len(gitReply.stack) : encArg[i + 1] = gitReply.stack[i]
        /\ Len(Lines(g_result.text)) = Len(gitReply.stack) + 1
        /\ parse_pr_stack_list(g_result.text) = encArg

\* Witness of C3: a parent stack of two numbers that already holds the pull
\* request number.
C3_Witness ==
    /\ g_pc = "done"
    /\ ~cherry_pick /\ ~directly_based_on_master
    /\ gitReply.ok
    /\ Len(gitReply.stack) = 2
    /\ gitReply.stack[2] = pr
    /\ gitReply.stack[1] # pr
    /\ Len(encArg) = 3

\* C4: with both flags unset and a failing lookup, the call returns the
\* lookup's error, does not call the encoder, produces no text and makes the
\* lookup once.
C4_LookupErrorPropagated ==
    g_pc = "done" /\ ~cherry_pick /\ ~directly_based_on_master /\ ~gitReply.ok =>
        /\ ~g_result.ok
        /\ g_result.err = gitReply.err
        /\ g_result.text = <<>>
        /\ encCalls = 0
        /\ gitCalls = 1

\* Witness of C4: a call with both flags unset has returned an error.
C4_Witness ==
    /\ g_pc = "done"
    /\ ~cherry_pick /\ ~directly_based_on_master
    /\ ~gitReply.ok
    /\ ~g_result.ok
    /\ g_result.err \in GitErrors

----------------------------------------------------------------------------
(* run_command *)

\* Values of a byte of the child's standard error, two of them
StderrBytes == {0, 1}

ExitCodes == 0..MaxExitCode

\* ExitStatus::success
Success(status) == status = 0

IsPrefix(a, b) == Len(a) <= Len(b) /\ SubSeq(b, 1, Len(a)) = a

\* Mutant: the captured standard error is not echoed.
FinishCommandNoEcho(output, stream, accepted) ==
    IF ~Success(output.status)
    THEN [diag |-> stream, write |-> "none", result |-> "Err(command failed)"]
    ELSE [diag |-> stream, write |-> "none", result |-> "Ok"]

\* Mutant: the captured standard error is echoed whatever the exit status.
FinishCommandEchoAlways(output, stream, accepted) ==
    IF accepted < Len(output.stderr)
    THEN [diag |-> stream \o SubSeq(output.stderr, 1, accepted),
          write |-> "failed", result |-> "Err(io)"]
    ELSE IF ~Success(output.status)
    THEN [diag |-> stream \o output.stderr,
          write |-> "ok", result |-> "Err(command failed)"]
    ELSE [diag |-> stream \o output.stderr, write |-> "ok", result |-> "Ok"]

\* The part of run_command after the await.  accepted is the number of bytes
\* the diagnostic stream takes before write_all fails, Len(output.stderr)
\* when it does not fail: write_all returns Ok once every byte is written,
\* and its error is returned by the ? operator.
FinishCommand(output, stream, accepted) ==
    IF ~Success(output.status)
    THEN IF accepted < Len(output.stderr)
         THEN [diag |-> stream \o SubSeq(output.stderr, 1, accepted),
               write |-> "failed", result |-> "Err(io)"]
         ELSE [diag |-> stream \o output.stderr,
               write |-> "ok", result |-> "Err(command failed)"]
    ELSE [diag |-> stream, write |-> "none", result |-> "Ok"]

InitRun ==
    /\ r_pc = "start" /\ spawned = 0
    /\ r_env = [spawn |-> "none", wait |-> "none", write |-> "none"]
    /\ cmd_output = [status |-> 0, stderr |-> <<>>]
    /\ diag = <<>> /\ r_result = "none"
    /\ SlugIdle /\ NameIdle /\ ParseIdle /\ CodecIdle /\ StackIdle

\* cmd.stdout(null).stderr(piped).spawn()?
Spawn ==
    /\ r_pc = "start"
    /\ spawned' = spawned + 1
    /\ \E ok \in BOOLEAN :
          IF ok
          THEN /\ r_env' = [r_env EXCEPT !.spawn = "ok"]
               /\ r_pc' = "spawned"
               /\ UNCHANGED r_result
          ELSE /\ r_env' = [r_env EXCEPT !.spawn = "failed"]
               /\ r_pc' = "done"
               /\ r_result' = "Err(io)"
    /\ UNCHANGED <<cmd_output, diag,
                   slugVars, nameVars, parseVars, codecVars, stackVars>>

\* .wait_with_output().await?
WaitWithOutput ==
    /\ r_pc = "spawned"
    /\ \E ok \in BOOLEAN, status \in ExitCodes,
          bytes \in SeqsUpTo(StderrBytes, MaxStderrLen) :
          IF ok
          THEN /\ r_env' = [r_env EXCEPT !.wait = "ok"]
               /\ cmd_output' = [status |-> status, stderr |-> bytes]
               /\ r_pc' = "waited"
               /\ UNCHANGED r_result
          ELSE /\ r_env' = [r_env EXCEPT !.wait = "failed"]
               /\ r_pc' = "done"
               /\ r_result' = "Err(io)"
               /\ UNCHANGED cmd_output
    /\ UNCHANGED <<spawned, diag,
                   slugVars, nameVars, parseVars, codecVars, stackVars>>

\* The check of the exit status, the echo of the captured standard error and
\* the return.
Finish ==
    /\ r_pc = "waited"
    /\ \E accepted \in 0..Len(cmd_output.stderr) :
          LET f == FinishCommand(cmd_output, diag, accepted)
          IN /\ diag' = f.diag
             /\ r_env' = [r_env EXCEPT !.write = f.write]
             /\ r_result' = f.result
    /\ r_pc' = "done"
    /\ UNCHANGED <<spawned, cmd_output,
                   slugVars, nameVars, parseVars, codecVars, stackVars>>

NextRun == Spawn \/ WaitWithOutput \/ Finish

SpecRun == InitRun /\ [][NextRun]_vars

----------------------------------------------------------------------------
(* Properties of run_command *)

\* The call has returned after its process finished with a non-zero exit status.
ReturnedAfterFailedProcess ==
    r_pc = "done" /\ r_env.wait = "ok" /\ ~Success(cmd_output.status)

\* C5 as stated: whenever the process finishes with a non-zero exit status,
\* run_command returns the "command failed" error and the diagnostic stream
\* has received exactly the captured standard error.
C5_FailedCommandEchoesStderr ==
    ReturnedAfterFailedProcess =>
        /\ r_result = "Err(command failed)"
        /\ diag = cmd_output.stderr

\* C5 amended: whenever the process finishes with a non-zero exit status,
\* run_command returns an error; when the write to the diagnostic stream
\* succeeds the error is "command failed" and the stream has received exactly
\* the captured standard error; when the write fails the error is the write's
\* I/O error and the stream has received a proper prefix of those bytes.
C5_FailedCommandEchoesStderrUnlessWriteFails ==
    ReturnedAfterFailedProcess =>
        /\ r_env.write \in {"ok", "failed"}
        /\ (r_env.write = "ok" =>
               r_result = "Err(command failed)" /\ diag = cmd_output.stderr)
        /\ (r_env.write = "failed" =>
               /\ r_result = "Err(io)"
               /\ IsPrefix(diag, cmd_output.stderr)
               /\ diag # cmd_output.stderr)

\* Witness of C5: a process that failed with two different bytes on its
\* standard error, both echoed.
C5_Witness ==
    /\ ReturnedAfterFailedProcess
    /\ Len(cmd_output.stderr) >= 2
    /\ cmd_output.stderr[1] # cmd_output.stderr[2]
    /\ r_env.write = "ok"
    /\ diag = cmd_output.stderr
    /\ r_result = "Err(command failed)"

\* C6: run_command returns Ok exactly when the spawn and the wait succeeded
\* and the exit status is zero; a failed spawn and a failed wait return an I/O
\* error; nothing is written to the diagnostic stream on success, on a failed
\* spawn and on a failed wait; and a call spawns at most once.
C6_RunCommandOutcomes ==
    /\ spawned <= 1
    /\ (r_pc = "done" =>
          /\ (r_result = "Ok" <=>
                 /\ r_env.spawn = "ok"
                 /\ r_env.wait = "ok"
                 /\ Success(cmd_output.status))
          /\ (r_env.spawn = "failed" => r_result = "Err(io)")
          /\ (r_env.wait = "failed" => r_result = "Err(io)")
          /\ (r_result = "Ok" \/ r_env.spawn = "failed" \/ r_env.wait = "failed"
                 => diag = <<>> /\ r_env.write = "none"))

\* Witness of C6: a command that wrote to its standard error and exited with
\* status zero has returned Ok.
C6_Witness ==
    /\ r_pc = "done"
    /\ r_result = "Ok"
    /\ spawned = 1
    /\ cmd_output.stderr # <<>>
    /\ diag = <<>>

====
